---------------------------- MODULE Spec2Model ----------------------------
(***************************************************************************)
(* A model of the shortest-import ESLint rule (src/rules/shortest-import). *)
(*                                                                         *)
(* A JavaScript string is a sequence of one-character strings, so that the *)
(* rule's regular expressions, startsWith/slice arithmetic and the POSIX   *)
(* path functions are computed character by character, as the code does.   *)
(***************************************************************************)
EXTENDS Naturals, Sequences, FiniteSets

\* JavaScript null / undefined: a value no string is equal to.
Null == <<"null">>

\* JavaScript truthiness of a (string | null | undefined) value.
Truthy(s) == s # Null /\ s # <<>>

-----------------------------------------------------------------------------
(* String primitives *)

\* String.prototype.startsWith
StartsWith(s, p) == Len(p) <= Len(s) /\ SubSeq(s, 1, Len(p)) = p

\* a regular expression anchored by $ on a literal suffix
EndsWith(s, p) == Len(p) <= Len(s) /\ SubSeq(s, Len(s) - Len(p) + 1, Len(s)) = p

\* String.prototype.slice(n)
Slice(s, n) == SubSeq(s, n + 1, Len(s))

DropLast(s, n) == SubSeq(s, 1, Len(s) - n)

\* String.prototype.indexOf for one character, 0-based, Len(s) when absent
RECURSIVE IndexFrom(_, _, _)
IndexFrom(s, c, i) ==
    IF i > Len(s) THEN Len(s)
    ELSE IF s[i] = c THEN i - 1
    ELSE IndexFrom(s, c, i + 1)

IndexOf(s, c) == IndexFrom(s, c, 1)

Contains(s, c) == IndexOf(s, c) < Len(s)

\* String.prototype.lastIndexOf for one character, 0-based; the caller tests
\* Contains first, so the character is found
RECURSIVE LastIndexFrom(_, _, _)
LastIndexFrom(s, c, i) ==
    IF i = 0 THEN 0
    ELSE IF s[i] = c THEN i - 1
    ELSE LastIndexFrom(s, c, i - 1)

\* String.prototype.split(c): the pieces between the separators, empty
\* pieces included ("".split("/") is [""])
RECURSIVE SplitFrom(_, _, _, _, _)
SplitFrom(s, c, i, cur, acc) ==
    IF i > Len(s) THEN Append(acc, cur)
    ELSE IF s[i] = c THEN SplitFrom(s, c, i + 1, <<>>, Append(acc, cur))
    ELSE SplitFrom(s, c, i + 1, Append(cur, s[i]), acc)

Split(s, c) == SplitFrom(s, c, 1, <<>>, <<>>)

\* Array.prototype.join(c)
RECURSIVE Join(_, _)
Join(parts, c) ==
    IF Len(parts) = 0 THEN <<>>
    ELSE IF Len(parts) = 1 THEN parts[1]
    ELSE parts[1] \o <<c>> \o Join(Tail(parts), c)

-----------------------------------------------------------------------------
(* Literals the code names *)

DotSlash == <<".", "/">>
SlashStar == <<"/", "*">>
SlashIndex == <<"/", "i", "n", "d", "e", "x">>
DotTs == <<".", "t", "s">>
DotTsx == <<".", "t", "s", "x">>
DotJs == <<".", "j", "s">>
DotJsx == <<".", "j", "s", "x">>
DotDot == <<".", ".">>
Dot == <<".">>

\* const extensions = [".ts", ".tsx", ".js", ".jsx", ""]
extensions == <<DotTs, DotTsx, DotJs, DotJsx, <<>>>>

\* .replace(/^\.\//, "")
StripLeadingDotSlash(s) == IF StartsWith(s, DotSlash) THEN Slice(s, 2) ELSE s

\* .replace(/\/\*$/, "")
StripSlashStar(s) == IF EndsWith(s, SlashStar) THEN DropLast(s, 2) ELSE s

\* .replace(/\.(ts|tsx|js|jsx)$/, "")
StripExtension(s) ==
    IF EndsWith(s, DotTs) THEN DropLast(s, 3)
    ELSE IF EndsWith(s, DotTsx) THEN DropLast(s, 4)
    ELSE IF EndsWith(s, DotJs) THEN DropLast(s, 3)
    ELSE IF EndsWith(s, DotJsx) THEN DropLast(s, 4)
    ELSE s

\* .replace(/\/index$/, "")
StripSlashIndex(s) == IF EndsWith(s, SlashIndex) THEN DropLast(s, 6) ELSE s

-----------------------------------------------------------------------------
(* Node's POSIX path module, on absolute first arguments *)

\* normalizeString: "." and empty components dropped, ".." pops a component
\* and is dropped at the root
RECURSIVE NormalizeParts(_, _)
NormalizeParts(parts, acc) ==
    IF parts = <<>> THEN acc
    ELSE LET p == Head(parts) IN
         IF p = <<>> \/ p = Dot THEN NormalizeParts(Tail(parts), acc)
         ELSE IF p = DotDot
              THEN NormalizeParts(Tail(parts),
                                  IF acc = <<>> THEN acc
                                  ELSE SubSeq(acc, 1, Len(acc) - 1))
         ELSE NormalizeParts(Tail(parts), Append(acc, p))

\* the components of an absolute path
PathParts(abs) == NormalizeParts(Split(abs, "/"), <<>>)

\* path.resolve(from, to), from absolute
PathResolve(from, to) ==
    LET joined == IF StartsWith(to, <<"/">>) THEN to ELSE from \o <<"/">> \o to
    IN <<"/">> \o Join(PathParts(joined), "/")

RECURSIVE CommonPrefixLen(_, _)
CommonPrefixLen(a, b) ==
    IF a = <<>> \/ b = <<>> THEN 0
    ELSE IF Head(a) = Head(b) THEN 1 + CommonPrefixLen(Tail(a), Tail(b))
    ELSE 0

\* path.relative(from, to), both absolute
PathRelative(from, to) ==
    LET f == PathParts(from)
        t == PathParts(to)
        k == CommonPrefixLen(f, t)
        ups == [i \in 1..(Len(f) - k) |-> DotDot]
    IN Join(ups \o SubSeq(t, k + 1, Len(t)), "/")

\* path.dirname of an absolute path
PathDirname(p) ==
    LET parts == PathParts(p)
    IN <<"/">> \o Join(SubSeq(parts, 1, Len(parts) - 1), "/")

-----------------------------------------------------------------------------
(* countSegments *)

\* the predicate of .filter((s) => s && s !== ".")
IsMeaningful(seg) == seg # <<>> /\ seg # Dot

\* Array.prototype.filter with that predicate
RECURSIVE FilterMeaningful(_)
FilterMeaningful(xs) ==
    IF xs = <<>> THEN <<>>
    ELSE (IF IsMeaningful(Head(xs)) THEN <<Head(xs)>> ELSE <<>>)
         \o FilterMeaningful(Tail(xs))

\* a countSegments whose filter also drops the ".." components
RECURSIVE FilterNamed(_)
FilterNamed(xs) ==
    IF xs = <<>> THEN <<>>
    ELSE (IF IsMeaningful(Head(xs)) /\ Head(xs) # DotDot
          THEN <<Head(xs)>> ELSE <<>>)
         \o FilterNamed(Tail(xs))

countSegmentsWithoutParents(importPath) ==
    Len(FilterNamed(Split(StripLeadingDotSlash(importPath), "/")))

countSegments(importPath) ==
    Len(FilterMeaningful(Split(StripLeadingDotSlash(importPath), "/")))

-----------------------------------------------------------------------------
(* tsconfig-paths: createMatchPath(absoluteBaseUrl, paths) and the matchPath *)
(* it returns, as the rule calls them (addMatchAll left at its default, true) *)

\* getPrefixLength: pattern.substr(0, pattern.indexOf("*")).length
PrefixLength(pattern) ==
    IF Contains(pattern, "*") THEN IndexOf(pattern, "*") ELSE 0

\* one step of the stable sort: insert e after the entries whose prefix is at
\* least as long
RECURSIVE InsertByPrefix(_, _)
InsertByPrefix(sorted, e) ==
    IF sorted = <<>> THEN <<e>>
    ELSE IF PrefixLength(Head(sorted).alias) >= PrefixLength(e.alias)
         THEN <<Head(sorted)>> \o InsertByPrefix(Tail(sorted), e)
    ELSE <<e>> \o sorted

\* sortByLongestPrefix
RECURSIVE SortByLongestPrefix(_, _)
SortByLongestPrefix(entries, acc) ==
    IF entries = <<>> THEN acc
    ELSE SortByLongestPrefix(Tail(entries), InsertByPrefix(acc, Head(entries)))

HasMatchAll(pathEntries) ==
    \E i \in 1..Len(pathEntries) : pathEntries[i].alias = <<"*">>

\* getAbsoluteMappingEntries: the patterns, longest prefix first, each with
\* its targets resolved against the base, then the match-all pattern "*"
AbsoluteMappingEntries(baseUrl, pathEntries, addMatchAll) ==
    LET sorted == SortByLongestPrefix(pathEntries, <<>>)
        abs == [i \in 1..Len(sorted) |->
                  [pattern |-> sorted[i].alias,
                   paths |-> [j \in 1..Len(sorted[i].targets) |->
                                PathResolve(baseUrl, sorted[i].targets[j])]]]
    IN IF addMatchAll /\ ~HasMatchAll(pathEntries)
       THEN abs \o <<[pattern |-> <<"*">>,
                      paths |-> <<PathResolve(baseUrl, <<"*">>)>>]>>
       ELSE abs

Min(a, b) == IF a < b THEN a ELSE b

\* matchStar: the text the pattern's "*" stands for, or undefined
matchStar(pattern, search) ==
    IF Len(search) < Len(pattern) THEN Null
    ELSE IF pattern = <<"*">> THEN search
    ELSE IF ~Contains(pattern, "*") THEN Null
    ELSE LET star == IndexOf(pattern, "*")
             part1 == SubSeq(pattern, 1, star)
             part2 == Slice(pattern, star + 1)
         IN IF SubSeq(search, 1, star) # part1 THEN Null
            ELSE IF ~EndsWith(search, part2) THEN Null
            ELSE SubSeq(search, star + 1,
                        Min(Len(search), star + Len(search) - Len(part2)))

\* physicalPathPattern.replace("*", starMatch)
ReplaceStar(pattern, starMatch) ==
    IF ~Contains(pattern, "*") THEN pattern
    ELSE LET star == IndexOf(pattern, "*")
         IN SubSeq(pattern, 1, star) \o starMatch \o Slice(pattern, star + 1)

\* the candidates of one physical path: the file, the file with each
\* extension, the package.json, the index file with each extension
TryPathsOf(physicalPath) ==
    <<[type |-> "file", path |-> physicalPath]>>
    \o [i \in 1..Len(extensions) |->
          [type |-> "extension", path |-> physicalPath \o extensions[i]]]
    \o <<[type |-> "package",
          path |-> physicalPath \o <<"/", "p", "a", "c", "k", "a", "g", "e",
                                     ".", "j", "s", "o", "n">>]>>
    \o [i \in 1..Len(extensions) |->
          [type |-> "index",
           path |-> physicalPath \o SlashIndex \o extensions[i]]]

RECURSIVE TryPathsOfTargets(_, _)
TryPathsOfTargets(targets, starMatch) ==
    IF targets = <<>> THEN <<>>
    ELSE TryPathsOf(ReplaceStar(Head(targets), starMatch))
         \o TryPathsOfTargets(Tail(targets), starMatch)

\* getPathsToTry: every mapping entry whose pattern matches, in order
RECURSIVE PathsToTry(_, _)
PathsToTry(mappings, requestedModule) ==
    IF mappings = <<>> THEN <<>>
    ELSE LET entry == Head(mappings)
             starMatch == IF entry.pattern = requestedModule THEN <<>>
                          ELSE matchStar(entry.pattern, requestedModule)
         IN (IF starMatch # Null
             THEN TryPathsOfTargets(entry.paths, starMatch)
             ELSE <<>>)
            \o PathsToTry(Tail(mappings), requestedModule)

\* removeExtension: path.substring(0, path.lastIndexOf(".")) || path
removeExtension(path) ==
    IF ~Contains(path, ".") THEN path
    ELSE LET cut == SubSeq(path, 1, LastIndexFrom(path, ".", Len(path)))
         IN IF cut = <<>> THEN path ELSE cut

\* getStrippedPath
StrippedPath(tryPath) ==
    IF tryPath.type = "index" THEN PathDirname(tryPath.path)
    ELSE IF tryPath.type = "extension" THEN removeExtension(tryPath.path)
    ELSE tryPath.path

\* fileExistsSync: fs.statSync(path).isFile(); the file system resolves the
\* path it is given
FileExists(fs, path) == PathResolve(<<"/">>, path) \in fs

\* findFirstExistingPath; no package.json exists in the file systems
\* modelled, so a "package" candidate is never found
RECURSIVE FirstExistingPath(_, _)
FirstExistingPath(tryPaths, fs) ==
    IF tryPaths = <<>> THEN Null
    ELSE IF Head(tryPaths).type # "package" /\ FileExists(fs, Head(tryPaths).path)
         THEN StrippedPath(Head(tryPaths))
    ELSE FirstExistingPath(Tail(tryPaths), fs)

\* createMatchPath(absoluteBaseUrl, paths): addMatchAll defaults to true
AddMatchAllDefault == TRUE

\* matchPath(source, undefined, undefined, extensions)
matchPath(baseUrl, pathEntries, fs, requestedModule) ==
    IF requestedModule = <<>> \/ Head(requestedModule) = "." THEN Null
    ELSE FirstExistingPath(
             PathsToTry(AbsoluteMappingEntries(baseUrl, pathEntries,
                                               AddMatchAllDefault),
                        requestedModule),
             fs)

-----------------------------------------------------------------------------
(* The rule's helpers *)

\* Map.prototype.set: a known key keeps its place and takes the new value
RECURSIVE MapSet(_, _, _)
MapSet(map, key, val) ==
    IF map = <<>> THEN <<[targetPath |-> key, aliasPrefix |-> val]>>
    ELSE IF Head(map).targetPath = key
         THEN <<[targetPath |-> key, aliasPrefix |-> val]>> \o Tail(map)
    ELSE <<Head(map)>> \o MapSet(Tail(map), key, val)

\* the inner loop of buildAliasMap: for (const target of targets)
RECURSIVE AddTargets(_, _, _, _)
AddTargets(map, baseUrl, alias, targets) ==
    IF targets = <<>> THEN map
    ELSE AddTargets(MapSet(map,
                           PathResolve(baseUrl, StripSlashStar(Head(targets))),
                           StripSlashStar(alias)),
                    baseUrl, alias, Tail(targets))

\* the outer loop: for (const [alias, targets] of Object.entries(paths))
RECURSIVE BuildFrom(_, _, _)
BuildFrom(map, baseUrl, pathEntries) ==
    IF pathEntries = <<>> THEN map
    ELSE BuildFrom(AddTargets(map, baseUrl, Head(pathEntries).alias,
                              Head(pathEntries).targets),
                   baseUrl, Tail(pathEntries))

buildAliasMap(baseUrl, pathEntries) == BuildFrom(<<>>, baseUrl, pathEntries)

\* normalized.startsWith(targetPath)
TargetMatches(normalized, targetPath) == StartsWith(normalized, targetPath)

\* the candidate one alias entry yields
AliasCandidate(normalized, entry) ==
    StripSlashIndex(entry.aliasPrefix \o Slice(normalized, Len(entry.targetPath)))

\* a comparison that lets a later entry with as many segments win
ImprovesOrTies(segments, shortestSegments) == segments <= shortestSegments

\* segments < shortestSegments
Improves(segments, shortestSegments) == segments < shortestSegments

\* the loop of findShortestAlias; shortest = Null stands for
\* shortestSegments = Infinity
RECURSIVE ShortestFrom(_, _, _)
ShortestFrom(entries, normalized, shortest) ==
    IF entries = <<>> THEN shortest
    ELSE LET entry == Head(entries)
             aliasImport == AliasCandidate(normalized, entry)
             better == shortest = Null
                       \/ Improves(countSegments(aliasImport),
                                   countSegments(shortest))
         IN ShortestFrom(Tail(entries), normalized,
                         IF TargetMatches(normalized, entry.targetPath) /\ better
                         THEN aliasImport ELSE shortest)

findShortestAlias(absolutePath, map) ==
    ShortestFrom(map, StripExtension(absolutePath), Null)

toRelativeImport(fromDir, toAbsolute) ==
    LET relative == PathRelative(fromDir, toAbsolute)
        dotted == IF StartsWith(relative, Dot) THEN relative
                  ELSE DotSlash \o relative
    IN StripSlashIndex(StripExtension(dotted))

-----------------------------------------------------------------------------
(* The projects the rule is run on *)

\* the base directory of the tsconfig (spec.md, scenarios A-D)
BaseSrc == <<"/", "s", "r", "c">>

\* alias patterns and target patterns of compilerOptions.paths
AliasAt == <<"@", "/", "*">>
AliasComponents == <<"@", "c", "o", "m", "p", "o", "n", "e", "n", "t", "s", "/", "*">>
AliasUtils == <<"@", "u", "t", "i", "l", "s", "/", "*">>
AliasAtComponents == <<"@", "/", "c", "o", "m", "p", "o", "n", "e", "n", "t", "s", "/", "*">>
AliasLib == <<"@", "l", "i", "b", "/", "*">>
AliasHashUi == <<"#", "/", "u", "i", "/", "*">>
TargetRoot == <<".", "/", "*">>
TargetComponents == <<".", "/", "c", "o", "m", "p", "o", "n", "e", "n", "t", "s", "/", "*">>
TargetUtils == <<".", "/", "u", "t", "i", "l", "s", "/", "*">>

\* files on disk
FileButton == <<"/", "s", "r", "c", "/", "c", "o", "m", "p", "o", "n", "e", "n", "t", "s", "/", "B", "u", "t", "t", "o", "n", ".", "t", "s">>
FileApp == <<"/", "s", "r", "c", "/", "c", "o", "m", "p", "o", "n", "e", "n", "t", "s", "/", "A", "p", "p", ".", "t", "s">>
FileComponentsIndex == <<"/", "s", "r", "c", "/", "c", "o", "m", "p", "o", "n", "e", "n", "t", "s", "/", "i", "n", "d", "e", "x", ".", "t", "s">>
FileHelpers == <<"/", "s", "r", "c", "/", "u", "t", "i", "l", "s", "/", "h", "e", "l", "p", "e", "r", "s", ".", "t", "s">>
FileOther == <<"/", "s", "r", "c", "/", "u", "t", "i", "l", "s", "/", "o", "t", "h", "e", "r", ".", "t", "s">>
FileLogin == <<"/", "s", "r", "c", "/", "f", "e", "a", "t", "u", "r", "e", "s", "/", "a", "u", "t", "h", "/", "l", "o", "g", "i", "n", ".", "t", "s">>
FileUtilsButton == <<"/", "s", "r", "c", "/", "u", "t", "i", "l", "s", "/", "B", "u", "t", "t", "o", "n", ".", "t", "s">>
FileExtraFoo == <<"/", "s", "r", "c", "/", "u", "t", "i", "l", "s", "-", "e", "x", "t", "r", "a", "/", "f", "o", "o", ".", "t", "s">>
FileOrgPackage == <<"/", "s", "r", "c", "/", "@", "o", "r", "g", "/", "p", "a", "c", "k", "a", "g", "e", ".", "t", "s">>
FileOrgMain == <<"/", "s", "r", "c", "/", "@", "o", "r", "g", "/", "m", "a", "i", "n", ".", "t", "s">>

\* import sources
SrcButton == <<".", "/", "B", "u", "t", "t", "o", "n">>
SrcHelpers == <<".", "/", "h", "e", "l", "p", "e", "r", "s">>
SrcUpUtilsHelpers == <<".", ".", "/", "u", "t", "i", "l", "s", "/", "h", "e", "l", "p", "e", "r", "s">>
SrcUpUpUtilsHelpers == <<".", ".", "/", ".", ".", "/", "u", "t", "i", "l", "s", "/", "h", "e", "l", "p", "e", "r", "s">>
SrcUpComponents == <<".", ".", "/", "c", "o", "m", "p", "o", "n", "e", "n", "t", "s">>
SrcUpUpComponentsButton == <<".", ".", "/", ".", ".", "/", "c", "o", "m", "p", "o", "n", "e", "n", "t", "s", "/", "B", "u", "t", "t", "o", "n">>
SrcUpComponentsButton == <<".", ".", "/", "c", "o", "m", "p", "o", "n", "e", "n", "t", "s", "/", "B", "u", "t", "t", "o", "n">>
SrcUpAuthLogin == <<".", ".", "/", "a", "u", "t", "h", "/", "l", "o", "g", "i", "n">>
SrcUpExtraFoo == <<".", ".", "/", "u", "t", "i", "l", "s", "-", "e", "x", "t", "r", "a", "/", "f", "o", "o">>
SrcUpUpUtilsButton == <<".", ".", "/", ".", ".", "/", "u", "t", "i", "l", "s", "/", "B", "u", "t", "t", "o", "n">>
SrcAtComponentsButton == <<"@", "/", "c", "o", "m", "p", "o", "n", "e", "n", "t", "s", "/", "B", "u", "t", "t", "o", "n">>
SrcComponentsButton == <<"@", "c", "o", "m", "p", "o", "n", "e", "n", "t", "s", "/", "B", "u", "t", "t", "o", "n">>
SrcUtilsHelpers == <<"@", "u", "t", "i", "l", "s", "/", "h", "e", "l", "p", "e", "r", "s">>
SrcAtUtilsHelpers == <<"@", "/", "u", "t", "i", "l", "s", "/", "h", "e", "l", "p", "e", "r", "s">>
SrcAtLogin == <<"@", "/", "f", "e", "a", "t", "u", "r", "e", "s", "/", "a", "u", "t", "h", "/", "l", "o", "g", "i", "n">>
SrcPath == <<"p", "a", "t", "h">>
SrcReact == <<"r", "e", "a", "c", "t">>
SrcOrgPackage == <<"@", "o", "r", "g", "/", "p", "a", "c", "k", "a", "g", "e">>
SrcBareComponentsButton == <<"c", "o", "m", "p", "o", "n", "e", "n", "t", "s", "/", "B", "u", "t", "t", "o", "n">>

\* a node.source.value that is not a string
NotAString == <<"number">>

IsString(v) == v # NotAString

Entry(alias, targets) == [alias |-> alias, targets |-> targets]

\* the fixture tsconfig of the README and of the tests
PathsReadme ==
    <<Entry(AliasAt, <<TargetRoot>>),
      Entry(AliasComponents, <<TargetComponents>>),
      Entry(AliasUtils, <<TargetUtils>>)>>

\* compilerOptions without paths (loadConfig gives paths = {})
PathsNone == <<>>

\* two aliases for one directory
PathsSharedTarget ==
    <<Entry(AliasComponents, <<TargetComponents>>),
      Entry(AliasAtComponents, <<TargetComponents>>)>>

\* one alias with two targets
PathsMultiTarget == <<Entry(AliasLib, <<TargetComponents, TargetUtils>>)>>

\* two aliases whose forms of one file have equally many segments
PathsTie ==
    <<Entry(AliasAt, <<TargetRoot>>),
      Entry(AliasHashUi, <<TargetComponents>>)>>

Tsconfigs == {PathsReadme, PathsNone, PathsSharedTarget, PathsMultiTarget, PathsTie}

\* the files of the test fixtures
FsFixture ==
    {FileButton, FileApp, FileComponentsIndex, FileHelpers, FileOther, FileLogin}

\* a project with more files under the base directory
FsExtended ==
    FsFixture \cup {FileUtilsButton, FileExtraFoo, FileOrgPackage, FileOrgMain}

FileSystems == {FsFixture, FsExtended}

\* the files linted
Filenames == {FileApp, FileOther, FileLogin, FileOrgMain}

\* options[0].preferOnTie as the tests pass it; "unset" is the default
\* options object {}
TiePolicies == {"unset", "alias", "relative"}

Sources ==
    {SrcButton, SrcHelpers, SrcUpUtilsHelpers, SrcUpUpUtilsHelpers,
     SrcUpComponents, SrcUpUpComponentsButton, SrcUpComponentsButton,
     SrcUpAuthLogin, SrcUpExtraFoo, SrcUpUpUtilsButton,
     SrcAtComponentsButton, SrcComponentsButton, SrcUtilsHelpers,
     SrcAtUtilsHelpers, SrcAtLogin, SrcPath, SrcReact, SrcOrgPackage,
     SrcBareComponentsButton, NotAString}

-----------------------------------------------------------------------------
(* The rule *)

VARIABLES
    tsconfigLoads,    \* loadConfig(tsconfigPath).resultType = "success"
    absoluteBaseUrl,  \* config.absoluteBaseUrl
    paths,            \* config.paths, as Object.entries lists it
    fs,               \* the files that exist
    options,          \* the rule's options object
    filename,         \* context.filename
    pc,               \* "new", then "listening" or "inert" once create ran
    fileDir,          \* create's fileDir
    aliasMap,         \* create's aliasMap, in Map iteration order
    source,           \* node.source.value of the import visited last
    currentSegments,  \* the handler's currentSegments
    resolved,         \* the handler's resolved (non-relative branch)
    relativeImport,   \* the handler's relativeImport (non-relative branch)
    report,           \* what the handler passed to context.report
    imports,          \* import declarations of the file visited so far
    fixes             \* fixes applied to this import so far

vars == <<tsconfigLoads, absoluteBaseUrl, paths, fs, options, filename, pc,
          fileDir, aliasMap, source, currentSegments, resolved,
          relativeImport, report, imports, fixes>>

env == <<tsconfigLoads, absoluteBaseUrl, paths, fs, options, filename>>

locals == <<resolved, relativeImport>>

\* the import declarations visited in one file
MaxImports == 1

\* the fix passes one import is followed through
MaxFixes == 3

NoReport ==
    [messageId |-> "none", shorter |-> Null, shorterCount |-> 0,
     currentCount |-> 0, fix |-> Null]

\* fixer.replaceText(node.source, `"${shorter}"`)
Quote(s) == <<"\"">> \o s \o <<"\"">>

\* the value of the string literal the fix wrote (no escapes occur)
LiteralValue(text) == SubSeq(text, 2, Len(text) - 1)

Report(shorter, shorterCount, currentCount) ==
    [messageId |-> "shorterImportAvailable", shorter |-> shorter,
     shorterCount |-> shorterCount, currentCount |-> currentCount,
     fix |-> Quote(shorter)]

\* a comparison that also reports an alias with as many segments
AliasShorterOrEqual(aliasSegments, current) == aliasSegments <= current

\* aliasSegments < currentSegments
AliasShorter(aliasSegments, current) == aliasSegments < current

\* a comparison that also reports a relative form with as many segments
RelativeShorterOrEqual(relativeSegments, current) == relativeSegments <= current

\* relativeSegments < currentSegments
RelativeShorter(relativeSegments, current) == relativeSegments < current

\* the handler's relative branch
RelativeBranch(dir, map, src) ==
    LET absolutePath == PathResolve(dir, src)
        aliasImport == findShortestAlias(absolutePath, map)
    IN IF Truthy(aliasImport)
          /\ AliasShorter(countSegments(aliasImport), countSegments(src))
       THEN Report(aliasImport, countSegments(aliasImport), countSegments(src))
       ELSE NoReport

\* the handler's non-relative branch
AliasBranch(dir, baseUrl, pathEntries, files, src) ==
    LET res == matchPath(baseUrl, pathEntries, files, src)
    IN IF ~Truthy(res) THEN NoReport
       ELSE LET rel == toRelativeImport(dir, res)
            IN IF RelativeShorter(countSegments(rel), countSegments(src))
               THEN Report(rel, countSegments(rel), countSegments(src))
               ELSE NoReport

\* what ImportDeclaration(node) reports for node.source.value = src
Handle(dir, map, baseUrl, pathEntries, files, src) ==
    IF ~IsString(src) THEN NoReport
    ELSE IF StartsWith(src, Dot) THEN RelativeBranch(dir, map, src)
    ELSE AliasBranch(dir, baseUrl, pathEntries, files, src)

\* const resolved = matchPath(source, undefined, undefined, extensions), when
\* the handler reaches it
ResolvedOf(baseUrl, pathEntries, files, src) ==
    IF IsString(src) /\ ~StartsWith(src, Dot)
    THEN matchPath(baseUrl, pathEntries, files, src)
    ELSE Null

\* const relativeImport = toRelativeImport(fileDir, resolved), when the
\* handler reaches it
RelativeOf(dir, res) ==
    IF Truthy(res) THEN toRelativeImport(dir, res) ELSE Null

Init ==
    /\ tsconfigLoads \in BOOLEAN
    /\ absoluteBaseUrl = BaseSrc
    /\ paths \in Tsconfigs
    /\ fs \in FileSystems
    /\ options \in [preferOnTie : TiePolicies]
    /\ filename \in Filenames
    /\ pc = "new"
    /\ fileDir = Null
    /\ aliasMap = <<>>
    /\ source = Null
    /\ currentSegments = 0
    /\ resolved = Null
    /\ relativeImport = Null
    /\ report = NoReport
    /\ imports = 0
    /\ fixes = 0

\* create(context, [options])
Create ==
    /\ pc = "new"
    /\ fileDir' = PathDirname(filename)
    /\ IF tsconfigLoads
       THEN /\ aliasMap' = buildAliasMap(absoluteBaseUrl, paths)
            /\ pc' = "listening"
       ELSE /\ aliasMap' = aliasMap
            /\ pc' = "inert"
    /\ UNCHANGED <<env, source, currentSegments, locals, report, imports, fixes>>

\* ImportDeclaration(node), for the next import of the file
ImportDeclaration ==
    /\ pc = "listening"
    /\ imports < MaxImports
    /\ imports' = imports + 1
    /\ \E src \in Sources :
        /\ source' = src
        /\ currentSegments' = IF IsString(src) THEN countSegments(src) ELSE 0
        /\ resolved' = ResolvedOf(absoluteBaseUrl, paths, fs, src)
        /\ relativeImport' = RelativeOf(fileDir, resolved')
        /\ report' = Handle(fileDir, aliasMap, absoluteBaseUrl, paths, fs, src)
    /\ fixes' = 0
    /\ UNCHANGED <<env, pc, fileDir, aliasMap>>

\* an import of a file for which create returned no listener
ImportUnheard ==
    /\ pc = "inert"
    /\ imports < MaxImports
    /\ imports' = imports + 1
    /\ \E src \in Sources : source' = src
    /\ UNCHANGED <<env, pc, fileDir, aliasMap, currentSegments, locals, report,
                   fixes>>

\* ESLint applies the reported fix and runs the rule on the fixed text
ApplyFix ==
    /\ pc = "listening"
    /\ report.messageId = "shorterImportAvailable"
    /\ fixes < MaxFixes
    /\ LET fixed == LiteralValue(report.fix)
       IN /\ source' = fixed
          /\ currentSegments' = countSegments(fixed)
          /\ resolved' = ResolvedOf(absoluteBaseUrl, paths, fs, fixed)
          /\ relativeImport' = RelativeOf(fileDir, resolved')
          /\ report' = Handle(fileDir, aliasMap, absoluteBaseUrl, paths, fs, fixed)
    /\ fixes' = fixes + 1
    /\ UNCHANGED <<env, pc, fileDir, aliasMap, imports>>

Next == Create \/ ImportDeclaration \/ ImportUnheard \/ ApplyFix

Spec == Init /\ [][Next]_vars

-----------------------------------------------------------------------------
(* countSegments on its own: every string over a small alphabet, and the *)
(* strings of the documented table                                        *)

\* the longest generated input
MaxLen == 5

SegmentAlphabet == {".", "/", "a"}

\* the table of spec.md, section 8, and of the comment above the tests
TblFoo == <<".", "/", "f", "o", "o">>
TblBarBaz == <<".", ".", "/", "b", "a", "r", "/", "b", "a", "z">>
TblUtils == <<"@", "u", "t", "i", "l", "s">>
TblABC == <<"a", "/", "b", "/", "c">>

SegmentTable ==
    {TblFoo, TblBarBaz, SrcComponentsButton, SrcAtComponentsButton, TblUtils,
     TblABC}

SegmentInputs ==
    SegmentTable
    \cup UNION {[1..n -> SegmentAlphabet] : n \in 0..MaxLen}

InitSegments ==
    /\ tsconfigLoads = FALSE
    /\ absoluteBaseUrl = BaseSrc
    /\ paths = PathsNone
    /\ fs = {}
    /\ options = [preferOnTie |-> "unset"]
    /\ filename = FileApp
    /\ pc = "countSegments"
    /\ fileDir = Null
    /\ aliasMap = <<>>
    /\ source = Null
    /\ currentSegments = 0
    /\ resolved = Null
    /\ relativeImport = Null
    /\ report = NoReport
    /\ imports = 0
    /\ fixes = 0

\* one call countSegments(importPath)
CallCountSegments ==
    /\ pc = "countSegments"
    /\ source = Null
    /\ \E importPath \in SegmentInputs :
        /\ source' = importPath
        /\ currentSegments' = countSegments(importPath)
    /\ UNCHANGED <<env, pc, fileDir, aliasMap, locals, report, imports, fixes>>

NextSegments == CallCountSegments

SpecSegments == InitSegments /\ [][NextSegments]_vars

-----------------------------------------------------------------------------
(* toRelativeImport on its own: every file directory and every resolved    *)
(* target made of a few component names, among them a directory whose name *)
(* starts with a dot, a component named index and a file with an extension *)

\* the deepest generated directory and target
MaxDepth == 2

NameA == <<"a">>
NameHidden == <<".", "h">>
NameIndex == <<"i", "n", "d", "e", "x">>
NameModTs == <<"m", ".", "t", "s">>

DirNames == {NameA, NameHidden}
TargetNames == {NameA, NameHidden, NameIndex, NameModTs}

\* the absolute path with the given components
AbsoluteOf(names) == <<"/">> \o Join(names, "/")

\* the directories a linted file can be in
FromDirs == {AbsoluteOf(d) : d \in UNION {[1..n -> DirNames] : n \in 0..MaxDepth}}

\* the absolute paths matchPath can return
ToAbsolutes ==
    {AbsoluteOf(t) : t \in UNION {[1..n -> TargetNames] : n \in 1..MaxDepth}}

InitRelative ==
    /\ tsconfigLoads = TRUE
    /\ absoluteBaseUrl = BaseSrc
    /\ paths = PathsNone
    /\ fs = {}
    /\ options = [preferOnTie |-> "unset"]
    /\ filename = FileApp
    /\ pc = "toRelativeImport"
    /\ fileDir = Null
    /\ aliasMap = <<>>
    /\ source = Null
    /\ currentSegments = 0
    /\ resolved = Null
    /\ relativeImport = Null
    /\ report = NoReport
    /\ imports = 0
    /\ fixes = 0

\* one call toRelativeImport(fromDir, toAbsolute)
CallToRelativeImport ==
    /\ pc = "toRelativeImport"
    /\ resolved = Null
    /\ \E fromDir \in FromDirs, toAbsolute \in ToAbsolutes :
        /\ fileDir' = fromDir
        /\ resolved' = toAbsolute
        /\ relativeImport' = toRelativeImport(fromDir, toAbsolute)
    /\ UNCHANGED <<env, pc, aliasMap, source, currentSegments, report, imports,
                   fixes>>

NextRelative == CallToRelativeImport

SpecRelative == InitRelative /\ [][NextRelative]_vars

-----------------------------------------------------------------------------
(* Properties *)

\* an import has been handled by the listener
Handled == pc = "listening" /\ imports > 0 /\ IsString(source)

IsRelative(spec) == StartsWith(spec, Dot)

Reported == report.messageId = "shorterImportAvailable"

\* the form of the opposite kind the resolver finds for a specifier, or Null
AlternativeOf(spec) ==
    IF IsRelative(spec)
    THEN LET alias == findShortestAlias(PathResolve(fileDir, spec), aliasMap)
         IN IF Truthy(alias) THEN alias ELSE Null
    ELSE LET res == matchPath(absoluteBaseUrl, paths, fs, spec)
         IN IF Truthy(res) THEN toRelativeImport(fileDir, res)
            ELSE Null

\* C1: under the default options, when an alternative T of the opposite kind
\* is found for the source S, the rule reports T, with T as the fix, exactly
\* when T has fewer segments than S; otherwise it reports nothing
C1_ReportsIffFewerSegments ==
    (Handled /\ options.preferOnTie = "unset" /\ AlternativeOf(source) # Null)
    => LET T == AlternativeOf(source)
       IN IF countSegments(T) < countSegments(source)
          THEN /\ Reported
               /\ report.shorter = T
               /\ LiteralValue(report.fix) = T
          ELSE report = NoReport

\* C1: an alias with fewer segments has been reported for a relative source
C1_Witness ==
    /\ Handled
    /\ options.preferOnTie = "unset"
    /\ source = SrcUpUtilsHelpers
    /\ Reported
    /\ report.shorter = SrcUtilsHelpers

\* the specifier without one leading "./"
Unprefixed(s) ==
    IF Len(s) >= 2 /\ s[1] = "." /\ s[2] = "/" THEN SubSeq(s, 3, Len(s)) ELSE s

\* the places of t where a component that is neither empty nor "." begins
CountedStarts(t) ==
    {i \in 1..Len(t) :
        /\ t[i] # "/"
        /\ (i = 1 \/ t[i - 1] = "/")
        /\ ~(t[i] = "." /\ (i = Len(t) \/ t[i + 1] = "/"))}

C3_Idempotent ==
    (pc = "listening" /\ fixes >= 1) => report = NoReport

\* C4: on equal segment counts the verdict follows options.preferOnTie: "alias"
\* replaces a relative source by the alias form, "relative" replaces an aliased
\* source by the relative form, the default keeps the source
C4_TieFollowsPolicy ==
    (Handled /\ AlternativeOf(source) # Null
     /\ countSegments(AlternativeOf(source)) = countSegments(source))
    => IF \/ (options.preferOnTie = "alias" /\ IsRelative(source))
          \/ (options.preferOnTie = "relative" /\ ~IsRelative(source))
       THEN Reported /\ report.shorter = AlternativeOf(source)
       ELSE options.preferOnTie = "unset" => report = NoReport

\* the absolute target a specifier denotes from the linted file, its source
\* extension and trailing /index stripped; Null when it resolves to nothing
Denotes(spec) ==
    IF IsRelative(spec)
    THEN StripSlashIndex(StripExtension(PathResolve(fileDir, spec)))
    ELSE LET res == matchPath(absoluteBaseUrl, paths, fs, spec)
         IN IF res = Null THEN Null
            ELSE StripSlashIndex(StripExtension(res))

\* C5: a reported replacement denotes the same absolute target as the source
C5_ReplacementEquivalent ==
    (Handled /\ Reported) => Denotes(report.shorter) = Denotes(source)

\* the specifier is the alias prefix or continues it after a "/"
UnderAliasPrefix(spec, alias) ==
    LET prefix == StripSlashStar(alias)
    IN spec = prefix \/ StartsWith(spec, prefix \o <<"/">>)

MatchesSomeAlias(spec) ==
    \E i \in 1..Len(paths) : UnderAliasPrefix(spec, paths[i].alias)

\* C6: a source that does not start with "." and matches no configured alias
\* prefix is never reported, whatever the directory and the files on disk
C6_ExternalImmunity ==
    (Handled /\ ~IsRelative(source) /\ ~MatchesSomeAlias(source))
    => report = NoReport

\* C7: when the configuration does not load, or loads without path mappings,
\* nothing is ever reported
C7_NoAliasNoOp ==
    (~tsconfigLoads \/ paths = PathsNone) => report = NoReport

\* the directory is the path or an ancestor of it
OnSegmentBoundary(targetPath, normalized) ==
    \/ normalized = targetPath
    \/ StartsWith(normalized, targetPath \o <<"/">>)

\* C8: an alias reported for a relative source is the candidate of an entry
\* whose target directory is a prefix of the normalized absolute path on a
\* path-segment boundary
C8_PrefixOnSegmentBoundary ==
    (Handled /\ IsRelative(source) /\ Reported)
    => LET normalized == StripExtension(PathResolve(fileDir, source))
       IN \E i \in 1..Len(aliasMap) :
            /\ OnSegmentBoundary(aliasMap[i].targetPath, normalized)
            /\ report.shorter = AliasCandidate(normalized, aliasMap[i])

\* one table entry per (alias, target) pair, in configuration order
RECURSIVE PairsOf(_, _)
PairsOf(alias, targets) ==
    IF targets = <<>> THEN <<>>
    ELSE <<[targetPath |-> PathResolve(absoluteBaseUrl,
                                       StripSlashStar(Head(targets))),
            aliasPrefix |-> StripSlashStar(alias)]>>
         \o PairsOf(alias, Tail(targets))

RECURSIVE PairsInOrder(_)
PairsInOrder(pathEntries) ==
    IF pathEntries = <<>> THEN <<>>
    ELSE PairsOf(Head(pathEntries).alias, Head(pathEntries).targets)
         \o PairsInOrder(Tail(pathEntries))

\* C9: the alias table holds every (alias, target) pair of the configuration,
\* in order, and the alias offered for a relative source has no more segments
\* than the candidate of any configured pair that matches
C9_NoEntryDiscarded ==
    /\ pc = "listening" => aliasMap = PairsInOrder(paths)
    /\ (Handled /\ IsRelative(source))
       => LET normalized == StripExtension(PathResolve(fileDir, source))
              pairs == PairsInOrder(paths)
          IN \A i \in 1..Len(pairs) :
               TargetMatches(normalized, pairs[i].targetPath)
               => /\ AlternativeOf(source) # Null
                  /\ countSegments(AlternativeOf(source))
                       <= countSegments(AliasCandidate(normalized, pairs[i]))

\* the entries of the alias table findShortestAlias accepts for a path
Matching(normalized) ==
    {i \in 1..Len(aliasMap) : TargetMatches(normalized, aliasMap[i].targetPath)}

\* C10: findShortestAlias returns the candidate of a matching entry with the
\* fewest segments, the earliest such entry of the table on a tie; when no
\* entry matches it returns nothing and nothing is reported
C10_ShortestEarliestCandidate ==
    (Handled /\ IsRelative(source))
    => LET normalized == StripExtension(PathResolve(fileDir, source))
           found == findShortestAlias(PathResolve(fileDir, source), aliasMap)
           cand(i) == AliasCandidate(normalized, aliasMap[i])
       IN IF Matching(normalized) = {}
          THEN found = Null /\ report = NoReport
          ELSE \E i \in Matching(normalized) :
                 /\ found = cand(i)
                 /\ \A j \in Matching(normalized) :
                      /\ countSegments(cand(i)) <= countSegments(cand(j))
                      /\ j < i => countSegments(cand(i)) < countSegments(cand(j))

\* C10: two entries give candidates with equally many segments and the
\* earlier entry's candidate is the one reported
C10_Witness ==
    /\ Handled
    /\ paths = PathsTie
    /\ source = SrcUpUpComponentsButton
    /\ Cardinality(Matching(StripExtension(PathResolve(fileDir, source)))) = 2
    /\ Reported
    /\ report.shorter = SrcAtComponentsButton

\* a specifier that is relative in form: "." or "..", or one that begins with
\* "./" or "../"
RelativeInForm(spec) ==
    \/ spec \in {Dot, DotDot}
    \/ StartsWith(spec, DotSlash)
    \/ StartsWith(spec, DotDot \o <<"/">>)

\* C11: whatever the file directory and the resolved target, the specifier
\* toRelativeImport produces is relative in form (never a bare name), has no
\* trailing .ts/.tsx/.js/.jsx extension and no trailing /index segment
C11_RelativeSpecifierForm ==
    (pc = "toRelativeImport" /\ resolved # Null) =>
        /\ RelativeInForm(relativeImport)
        /\ StripExtension(relativeImport) = relativeImport
        /\ ~EndsWith(relativeImport, SlashIndex)

\* the specifiers the claim names as written in an import, with the ones of
\* the documented table
NamedSpecifiers == {Dot, DotSlash, DotDot} \cup SegmentTable

\* C12: countSegments gives at least 1 for a specifier written in an import,
\* ".", "./" and ".." included
C12_AtLeastOneSegment ==
    (pc = "countSegments" /\ source \in NamedSpecifiers) =>
        currentSegments >= 1

DefaultOptions == options.preferOnTie = "unset"

\* a step that replaces the specifier by the alternative the rule reported
Replaces == pc = "listening" /\ DefaultOptions /\ fixes' = fixes + 1

\* C13: with the default options every replacement of a specifier by the
\* alternative the rule reports has strictly fewer segments than the
\* specifier it replaces (so the count is a variant: no chain of replacements
\* is infinite or comes back to an earlier form), and a chain of replacements
\* is never cut short by the bound on fixes: it ends at a specifier for which
\* nothing is reported
C13_FixingTerminates ==
    /\ [][Replaces => countSegments(source') < countSegments(source)]_vars
    /\ []((Handled /\ DefaultOptions /\ Reported) => fixes < MaxFixes)

\* two replacements in a row, after which nothing is reported
C13_Witness ==
    Handled /\ DefaultOptions /\ fixes = 2 /\ ~Reported

=============================================================================
